---- MODULE Spec2Model ----
(***************************************************************************)
(* Model of web/main.py: the Streamlit page that stages a Minipar program  *)
(* on disk, launches the minipar interpreter as a child process, forwards  *)
(* one line of input, and streams the child's standard output to the page. *)
(*                                                                         *)
(* Text is modelled by TLA+ strings ("\n" is the line terminator), paths   *)
(* by sequences of path components.  The child process, the file system    *)
(* and the pipes are the environment of the script.                        *)
(***************************************************************************)
EXTENDS Integers, Sequences, FiniteSets, TLC

\* ------------------------------------------------------------ bounds
\* number of times the "Executar" button is pressed
MaxRuns == 2
\* number of lines a child writes (standard output and standard error together)
MaxLines == 3
\* number of lines a pipe holds before the writer blocks
PipeCap == 2

\* ------------------------------------------------------- input domains
\* program texts typed into the editor
Sources == {"p1", "p2"}
\* values of the "Input para o programa" field ("" when left empty)
Inputs == {"", "4"}
\* the text of the k-th line a child writes: all different, so that a line
\* out of place, repeated or missing shows
LineText == <<"a\n", "b\n", "c\n", "d\n">>
\* exit statuses of a child
ExitStatuses == {0, 1}
\* working directories the page may be served from
Cwds == {<<"app", "web">>, <<"srv">>}
\* conditions of the file system: usable, not writable, no space left
FsModes == {"ok", "readonly", "full"}

NoFile == "<absent>"
NoStatus == -1

VARIABLES
    pc,          \* position of the script thread
    run,         \* number of runs started
    code_input,  \* text of the editor for this run
    user_input,  \* text of the input field for this run
    error,       \* exception that ended the run ("none" if none)
    held,        \* element yielded by format_process_output, not yet written
    delivered,   \* elements written to the page by st.write, in order
    cwd,         \* working directory of the page's process
    fsMode,      \* condition of the file system
    exe,         \* TRUE iff ../minipar/minipar exists and is executable
    dirs,        \* existing directories (absolute, normalised)
    files,       \* path -> contents, for the paths of interest
    child,       \* "none", "running", "exited" (not waited for), "reaped"
                 \* (waited for: no step of the script does it, finalisation may)
    exitStatus,  \* exit status of the child, NoStatus while it runs
    emitted,     \* every line the child wrote, in order, with its channel
    stdoutPipe,  \* lines in the stdout pipe, not yet read by the page
    stderrPipe,  \* lines in the stderr pipe (nobody reads them)
    outClosed,   \* the child closed its end of the stdout pipe
    stdinBuf,    \* text in process.stdin's buffer, not yet flushed
    stdinPipe,   \* text in the stdin pipe, not yet read by the child
    stdinSeen,   \* text the child has read from its standard input
    stdinWrites, \* number of process.stdin.write calls in this run
    spawns,      \* number of children created in this run
    stdinOpen,   \* the page's end of the stdin pipe is open
    stderrOpen,  \* the page's end of the stderr pipe is open
    stdoutOpen,  \* the page's end of the stdout pipe is open
    stagedAt,    \* absolute path this run opened for writing, <<>> before
    made,        \* directories this run's os.makedirs call created
    blocked,     \* "out" or "err" while the child waits in a write to that full
                 \* pipe, "no" otherwise
    loaded,      \* program text the child read from its argument, NoFile before
    prev,        \* what the previous run staged, and where
    other        \* a second browser session's script thread running main() in
                 \* the same server process: where it is, its source, its path

vars == <<pc, run, code_input, user_input, error, held, delivered, cwd, fsMode,
          exe, dirs, files, child, exitStatus, emitted, stdoutPipe, stderrPipe,
          outClosed, stdinBuf, stdinPipe, stdinSeen, stdinWrites, spawns,
          stdinOpen, stderrOpen, stdoutOpen, stagedAt, made, loaded, blocked,
          prev, other>>

progVars == <<pc, run, code_input, user_input, error, held, delivered>>
envVars == <<cwd, fsMode, exe, other>>
fsVars == <<dirs, files, stagedAt, made>>
childVars == <<child, exitStatus, emitted, stdoutPipe, stderrPipe, outClosed,
               stdinPipe, stdinSeen, loaded, blocked>>
handleVars == <<stdinBuf, stdinWrites, spawns, stdinOpen, stderrOpen, stdoutOpen>>

\* ------------------------------------------------------------- paths
MINIPAR_PATH == <<"..", "minipar", "minipar">>

\* os.path.join
Join(a, b) == a \o b

\* os.path.dirname
Dirname(p) == SubSeq(p, 1, Len(p) - 1)

\* the kernel's resolution of ".." components
RECURSIVE Normalize(_, _)
Normalize(done, rest) ==
    IF rest = <<>> THEN done
    ELSE IF Head(rest) = "."
         THEN Normalize(done, Tail(rest))
    ELSE IF Head(rest) = ".."
         THEN Normalize(IF done = <<>> THEN <<>> ELSE Dirname(done), Tail(rest))
         ELSE Normalize(Append(done, Head(rest)), Tail(rest))

\* the absolute path a relative path names for a process whose working directory is d
Resolve(d, rel) == Normalize(<<>>, d \o rel)

\* a path and all its ancestors
Ancestors(p) == {SubSeq(p, 1, n) : n \in 0..Len(p)}

dir_path == <<"..", "minipar", "tmp">>
code_file == Join(dir_path, <<"prog.minipar">>)
code_path == Join(<<"tmp">>, <<"prog.minipar">>)
cmd == <<<<".", "minipar">>, code_path>>

\* a Popen call without the cwd argument: the child keeps the caller's directory
child_cwd_inherited == <<>>

\* cwd=os.path.dirname(MINIPAR_PATH)
child_cwd == Dirname(MINIPAR_PATH)

\* the paths the model keeps the contents of
Paths == {Resolve(c, code_file) : c \in Cwds}

\* ------------------------------------------------------------- Init
NoPrev == [staged |-> FALSE, src |-> "", path |-> <<>>]

NoOther == [pc |-> "idle", code |-> "", path |-> <<>>]

Init ==
    /\ pc = "idle"
    /\ run = 0
    /\ code_input = ""
    /\ user_input = ""
    /\ error = "none"
    /\ held = ""
    /\ delivered = <<>>
    /\ cwd \in Cwds
    /\ fsMode \in FsModes
    /\ exe \in BOOLEAN
    /\ \E tmp \in BOOLEAN :
         dirs = Ancestors(cwd) \cup
                (IF exe \/ tmp THEN Ancestors(Resolve(cwd, Dirname(MINIPAR_PATH))) ELSE {}) \cup
                (IF tmp THEN Ancestors(Resolve(cwd, dir_path)) ELSE {})
    /\ \E old \in Sources \cup {NoFile} :
         files = [p \in Paths |->
                    IF p = Resolve(cwd, code_file) /\ Resolve(cwd, dir_path) \in dirs
                    THEN old ELSE NoFile]
    /\ child = "none"
    /\ exitStatus = NoStatus
    /\ emitted = <<>>
    /\ stdoutPipe = <<>>
    /\ stderrPipe = <<>>
    /\ outClosed = FALSE
    /\ stdinBuf = ""
    /\ stdinPipe = ""
    /\ stdinSeen = ""
    /\ stdinWrites = 0
    /\ spawns = 0
    /\ stdinOpen = FALSE
    /\ stderrOpen = FALSE
    /\ stdoutOpen = FALSE
    /\ stagedAt = <<>>
    /\ made = {}
    /\ loaded = NoFile
    /\ blocked = "no"
    /\ prev = NoPrev
    /\ other = NoOther

\* ----------------------------------------------------- pure helpers
\* Formatted with the newline character after the line
Formatted_suffix(line) == line \o "\n"

\* format_process_output's element for one line
Formatted(line) == "\n" \o line

\* the lines among history h written to channel ch, in order
RECURSIVE LinesOf(_, _)
LinesOf(h, ch) ==
    IF h = <<>> THEN <<>>
    ELSE IF Head(h).ch = ch THEN <<Head(h).line>> \o LinesOf(Tail(h), ch)
         ELSE LinesOf(Tail(h), ch)

\* the run is over: the script thread has nothing left to do
Ended == pc \in {"done", "failed", "abandoned"}

\* the exceptions of the staging steps
StagingErrors == {"OSError:makedirs", "OSError:open", "OSError:write"}

\* the script thread leaves the run with exception e
Raise(e) == pc' = "failed" /\ error' = e

\* ------------------------------------------------ the page: main()
\* the user fills the two fields and presses "Executar": the script reruns.
\* The child and the pipes of the run before are out of the script's reach from
\* here on: the variables describe the new run's.
StartRun(code, input) ==
    /\ pc = "idle" \/ Ended
    /\ run < MaxRuns
    /\ pc' = "makedirs"
    /\ run' = run + 1
    /\ code_input' = code
    /\ user_input' = input
    /\ error' = "none"
    /\ held' = ""
    /\ delivered' = <<>>
    /\ prev' = IF pc = "failed" /\ error \in StagingErrors
               THEN NoPrev
               ELSE [staged |-> run > 0, src |-> code_input, path |-> stagedAt]
    /\ child' = "none"
    /\ exitStatus' = NoStatus
    /\ emitted' = <<>>
    /\ stdoutPipe' = <<>>
    /\ stderrPipe' = <<>>
    /\ outClosed' = FALSE
    /\ stdinBuf' = ""
    /\ stdinPipe' = ""
    /\ stdinSeen' = ""
    /\ stdinWrites' = 0
    /\ spawns' = 0
    /\ stdinOpen' = FALSE
    /\ stderrOpen' = FALSE
    /\ stdoutOpen' = FALSE
    /\ stagedAt' = <<>>
    /\ made' = {}
    /\ loaded' = NoFile
    /\ blocked' = "no"
    /\ UNCHANGED <<envVars, dirs, files>>

\* ------------------------------- exec_minipar_with_input: staging
\* os.mkdir in the place of os.makedirs: no missing parent is created
Makedirs_mkdir ==
    /\ pc = "makedirs"
    /\ LET target == Resolve(cwd, dir_path) IN
         IF target \in dirs
         THEN /\ pc' = "open"
              /\ UNCHANGED <<error, dirs, made>>
         ELSE IF fsMode = "ok" /\ Dirname(target) \in dirs
         THEN /\ pc' = "open"
              /\ dirs' = dirs \cup {target}
              /\ made' = {target}
              /\ UNCHANGED error
         ELSE /\ Raise("OSError:makedirs")
              /\ UNCHANGED <<dirs, made>>
    /\ UNCHANGED <<run, code_input, user_input, held, delivered, envVars, files,
                   stagedAt, childVars, handleVars, prev>>

\* os.makedirs(dir_path, exist_ok=True): an existing directory is left as it is,
\* a missing one is created together with its missing parents
Makedirs ==
    /\ pc = "makedirs"
    /\ LET target == Resolve(cwd, dir_path) IN
         IF target \in dirs
         THEN /\ pc' = "open"
              /\ UNCHANGED <<error, dirs, made>>
         ELSE IF fsMode = "ok"
         THEN /\ pc' = "open"
              /\ dirs' = dirs \cup Ancestors(target)
              /\ made' = Ancestors(target) \ dirs
              /\ UNCHANGED error
         ELSE /\ Raise("OSError:makedirs")
              /\ UNCHANGED <<dirs, made>>
    /\ UNCHANGED <<run, code_input, user_input, held, delivered, envVars, files,
                   stagedAt, childVars, handleVars, prev>>

\* OpenFile in append mode: the file is created but not truncated
OpenFile_append ==
    /\ pc = "open"
    /\ LET path == Resolve(cwd, code_file) IN
         IF fsMode = "readonly" \/ Dirname(path) \notin dirs
         THEN /\ Raise("OSError:open")
              /\ UNCHANGED <<files, stagedAt>>
         ELSE /\ pc' = "write"
              /\ files' = [files EXCEPT ![path] = IF @ = NoFile THEN "" ELSE @]
              /\ stagedAt' = path
              /\ UNCHANGED error
    /\ UNCHANGED <<run, code_input, user_input, held, delivered, envVars, dirs,
                   made, childVars, handleVars, prev>>

\* open(code_file, "w"): creates the file or truncates it
OpenFile ==
    /\ pc = "open"
    /\ LET path == Resolve(cwd, code_file) IN
         IF fsMode = "readonly" \/ Dirname(path) \notin dirs
         THEN /\ Raise("OSError:open")
              /\ UNCHANGED <<files, stagedAt>>
         ELSE /\ pc' = "write"
              /\ files' = [files EXCEPT ![path] = ""]
              /\ stagedAt' = path
              /\ UNCHANGED error
    /\ UNCHANGED <<run, code_input, user_input, held, delivered, envVars, dirs,
                   made, childVars, handleVars, prev>>

\* WriteFile outside a with block: the text stays in the file object's buffer
\* and the file is still open and empty when the function goes on
WriteFile_unflushed ==
    /\ pc = "write"
    /\ IF fsMode = "full" /\ code_input # ""
       THEN Raise("OSError:write")
       ELSE pc' = "popen" /\ UNCHANGED error
    /\ UNCHANGED <<run, code_input, user_input, held, delivered, envVars, fsVars,
                   childVars, handleVars, prev>>

\* WriteFile that swallows the exception of a failed write
WriteFile_swallow ==
    /\ pc = "write"
    /\ pc' = "popen"
    /\ files' = IF fsMode = "full" /\ code_input # ""
                THEN files
                ELSE [files EXCEPT ![stagedAt] = @ \o code_input]
    /\ UNCHANGED <<run, code_input, user_input, error, held, delivered, envVars,
                   dirs, stagedAt, made, childVars, handleVars, prev>>

\* f.write(code) and the close at the end of the with block
WriteFile ==
    /\ pc = "write"
    /\ IF fsMode = "full" /\ code_input # ""
       THEN /\ Raise("OSError:write")
            /\ UNCHANGED files
       ELSE /\ pc' = "popen"
            /\ files' = [files EXCEPT ![stagedAt] = @ \o code_input]
            /\ UNCHANGED error
    /\ UNCHANGED <<run, code_input, user_input, held, delivered, envVars, dirs,
                   stagedAt, made, childVars, handleVars, prev>>

\* --------------------------- exec_minipar_with_input: the process
\* Popen whose failure is swallowed: the function carries on without a child
Popen_swallow ==
    /\ pc = "popen"
    /\ pc' = "stdin_write"
    /\ IF ~exe \/ Resolve(cwd, child_cwd) \notin dirs
       THEN UNCHANGED <<child, spawns, stdinOpen, stderrOpen, stdoutOpen>>
       ELSE /\ child' = "running"
            /\ spawns' = spawns + 1
            /\ stdinOpen' = TRUE
            /\ stderrOpen' = TRUE
            /\ stdoutOpen' = TRUE
    /\ UNCHANGED <<run, code_input, user_input, error, held, delivered, envVars,
                   fsVars, exitStatus, emitted, stdoutPipe, stderrPipe, outClosed,
                   stdinPipe, stdinSeen, loaded, blocked, stdinBuf, stdinWrites, prev>>

\* subprocess.Popen(cmd, cwd=dirname(MINIPAR_PATH), three pipes, text=True)
Popen ==
    /\ pc = "popen"
    /\ IF ~exe \/ Resolve(cwd, child_cwd) \notin dirs
       THEN /\ Raise("OSError:Popen")
            /\ UNCHANGED <<child, spawns, stdinOpen, stderrOpen, stdoutOpen>>
       ELSE /\ pc' = "stdin_write"
            /\ child' = "running"
            /\ spawns' = spawns + 1
            /\ stdinOpen' = TRUE
            /\ stderrOpen' = TRUE
            /\ stdoutOpen' = TRUE
            /\ UNCHANGED error
    /\ UNCHANGED <<run, code_input, user_input, held, delivered, envVars, fsVars,
                   exitStatus, emitted, stdoutPipe, stderrPipe, outClosed,
                   stdinPipe, stdinSeen, loaded, blocked, stdinBuf, stdinWrites, prev>>

\* StdinWrite without the line terminator
StdinWrite_noTerminator ==
    /\ pc = "stdin_write"
    /\ stdinBuf' = stdinBuf \o user_input
    /\ stdinWrites' = stdinWrites + 1
    /\ pc' = "stdin_flush"
    /\ UNCHANGED <<run, code_input, user_input, error, held, delivered, envVars,
                   fsVars, childVars, spawns, stdinOpen, stderrOpen, stdoutOpen, prev>>

\* StdinWrite that writes nothing when the input field is empty
StdinWrite_skipEmpty ==
    /\ pc = "stdin_write"
    /\ stdinBuf' = IF user_input = "" THEN stdinBuf ELSE stdinBuf \o (user_input \o "\n")
    /\ stdinWrites' = IF user_input = "" THEN stdinWrites ELSE stdinWrites + 1
    /\ pc' = "stdin_flush"
    /\ UNCHANGED <<run, code_input, user_input, error, held, delivered, envVars,
                   fsVars, childVars, spawns, stdinOpen, stderrOpen, stdoutOpen, prev>>

\* process.stdin.write(user_input + "\n"): the text goes to the stream's buffer
StdinWrite ==
    /\ pc = "stdin_write"
    /\ stdinBuf' = stdinBuf \o (user_input \o "\n")
    /\ stdinWrites' = stdinWrites + 1
    /\ pc' = "stdin_flush"
    /\ UNCHANGED <<run, code_input, user_input, error, held, delivered, envVars,
                   fsVars, childVars, spawns, stdinOpen, stderrOpen, stdoutOpen, prev>>

\* process.stdin.flush(), then stdout = process.stdout; return stdout.
\* The flush raises BrokenPipeError when the child is gone.
StdinFlush ==
    /\ pc = "stdin_flush"
    /\ IF child # "running"
       THEN /\ Raise("BrokenPipeError:flush")
            /\ UNCHANGED <<stdinPipe, stdinBuf>>
       ELSE /\ pc' = "next"
            /\ stdinPipe' = stdinPipe \o stdinBuf
            /\ stdinBuf' = ""
            /\ UNCHANGED error
    /\ UNCHANGED <<run, code_input, user_input, held, delivered, envVars, fsVars,
                   child, exitStatus, emitted, stdoutPipe, stderrPipe, outClosed,
                   stdinSeen, loaded, blocked, stdinWrites, spawns, stdinOpen, stderrOpen,
                   stdoutOpen, prev>>

\* ------------------------- format_process_output and main's for loop
\* ReadLine that takes the newest line of the pipe instead of the oldest
ReadLine_newestFirst ==
    /\ pc = "next"
    /\ stdoutPipe # <<>>
    /\ held' = Formatted(stdoutPipe[Len(stdoutPipe)])
    /\ stdoutPipe' = SubSeq(stdoutPipe, 1, Len(stdoutPipe) - 1)
    /\ pc' = "st_write"
    /\ UNCHANGED <<run, code_input, user_input, error, delivered, envVars, fsVars,
                   child, exitStatus, emitted, stderrPipe, outClosed, stdinPipe,
                   stdinSeen, loaded, blocked, handleVars, prev>>

\* "for line in stdout" gets a line: yield "\n" + line
ReadLine ==
    /\ pc = "next"
    /\ stdoutPipe # <<>>
    /\ held' = Formatted(Head(stdoutPipe))
    /\ stdoutPipe' = Tail(stdoutPipe)
    /\ pc' = "st_write"
    /\ UNCHANGED <<run, code_input, user_input, error, delivered, envVars, fsVars,
                   child, exitStatus, emitted, stderrPipe, outClosed, stdinPipe,
                   stdinSeen, loaded, blocked, handleVars, prev>>

\* ReadEOF that hands the empty read at end-of-stream on as one more line
ReadEOF_extraElement ==
    /\ pc = "next"
    /\ stdoutPipe = <<>>
    /\ outClosed
    /\ pc' = "done"
    /\ delivered' = Append(delivered, Formatted(""))
    /\ UNCHANGED <<run, code_input, user_input, error, held, envVars,
                   fsVars, childVars, handleVars, prev>>

\* ReadEOF that turns a non-zero exit status into an exception
ReadEOF_checkStatus ==
    /\ pc = "next"
    /\ stdoutPipe = <<>>
    /\ outClosed
    /\ IF exitStatus \in {0, NoStatus}
       THEN pc' = "done" /\ UNCHANGED error
       ELSE Raise("CalledProcessError")
    /\ UNCHANGED <<run, code_input, user_input, held, delivered, envVars,
                   fsVars, childVars, handleVars, prev>>

\* "for line in stdout" reaches end-of-stream: the generator and the loop end
ReadEOF ==
    /\ pc = "next"
    /\ stdoutPipe = <<>>
    /\ outClosed
    /\ pc' = "done"
    /\ UNCHANGED <<run, code_input, user_input, error, held, delivered, envVars,
                   fsVars, childVars, handleVars, prev>>

\* ReadFault taken for the end of the stream: the loop ends as if complete
ReadFault_swallow ==
    /\ pc = "next"
    /\ pc' = "done"
    /\ UNCHANGED <<run, code_input, user_input, error, held, delivered, envVars,
                   fsVars, childVars, handleVars, prev>>

\* "for line in stdout" fails (the read of the pipe, or the decoding of what
\* was read, raises): the exception leaves the generator and main's loop
ReadFault ==
    /\ pc = "next"
    /\ Raise("OSError:read")
    /\ UNCHANGED <<run, code_input, user_input, held, delivered, envVars,
                   fsVars, childVars, handleVars, prev>>

\* st.write(line)
StWrite ==
    /\ pc = "st_write"
    /\ delivered' = Append(delivered, held)
    /\ held' = ""
    /\ pc' = "next"
    /\ UNCHANGED <<run, code_input, user_input, error, envVars, fsVars, childVars,
                   handleVars, prev>>

\* the page is rerun or closed while the loop runs: st.write stops the script
Abandon ==
    /\ pc = "st_write"
    /\ pc' = "abandoned"
    /\ held' = ""
    /\ UNCHANGED <<run, code_input, user_input, error, delivered, envVars, fsVars,
                   childVars, handleVars, prev>>

\* ---------------------------------------------- object finalisation
\* FinalizeProcess that closes the pipes of a child that is still running
FinalizeProcess_early ==
    /\ pc \in {"next", "st_write"} \/ (Ended /\ spawns > 0)
    /\ stdinOpen
    /\ child' = IF child = "exited" THEN "reaped" ELSE child
    /\ stdinOpen' = FALSE
    /\ stderrOpen' = FALSE
    /\ UNCHANGED <<progVars, envVars, fsVars, exitStatus, emitted, stdoutPipe,
                   stderrPipe, outClosed, stdinPipe, stdinSeen, loaded, blocked,
                   stdinBuf, stdinWrites, spawns, stdoutOpen, prev>>

\* The Popen object is local to exec_minipar_with_input: after the return, or
\* after the exception, the interpreter finalises it.  subprocess keeps the
\* object and its pipes alive while the child runs; once the child has exited,
\* finalisation waits for it and process.stdin and process.stderr are closed.
FinalizeProcess ==
    /\ pc \in {"next", "st_write"} \/ (Ended /\ spawns > 0)
    /\ child = "exited"
    /\ child' = "reaped"
    /\ stdinOpen' = FALSE
    /\ stderrOpen' = FALSE
    /\ UNCHANGED <<progVars, envVars, fsVars, exitStatus, emitted, stdoutPipe,
                   stderrPipe, outClosed, stdinPipe, stdinSeen, loaded, blocked, stdinBuf,
                   stdinWrites, spawns, stdoutOpen, prev>>

\* process_output is dropped when the script run ends: the stdout pipe is closed
FinalizeStdout ==
    /\ Ended
    /\ stdoutOpen
    /\ stdoutOpen' = FALSE
    /\ UNCHANGED <<progVars, envVars, fsVars, childVars, stdinBuf, stdinWrites,
                   spawns, stdinOpen, stderrOpen, prev>>

\* ------------------------------------------------------- the child
\* the interpreter opens its argument, relative to its working directory
ChildLoad ==
    /\ child = "running"
    /\ blocked = "no"
    /\ loaded = NoFile
    /\ LET path == Resolve(Resolve(cwd, child_cwd), cmd[2]) IN
         loaded' = IF path \in Paths THEN files[path] ELSE NoFile
    /\ loaded' # NoFile
    /\ UNCHANGED <<progVars, envVars, fsVars, child, exitStatus, emitted,
                   stdoutPipe, stderrPipe, outClosed, stdinPipe, stdinSeen,
                   blocked, handleVars, prev>>

\* the child reads what is in its standard input
ChildReadStdin ==
    /\ child = "running"
    /\ blocked = "no"
    /\ stdinPipe # ""
    /\ stdinSeen' = stdinSeen \o stdinPipe
    /\ stdinPipe' = ""
    /\ UNCHANGED <<progVars, envVars, fsVars, child, exitStatus, emitted,
                   stdoutPipe, stderrPipe, outClosed, loaded, blocked,
                   handleVars, prev>>

\* the child writes its next line to its standard output: at once, or when the
\* write it waited in finds room in the pipe
ChildWriteOut ==
    /\ child = "running"
    /\ blocked \in {"no", "out"}
    /\ ~outClosed
    /\ stdoutOpen
    /\ Len(emitted) < MaxLines
    /\ Len(stdoutPipe) < PipeCap
    /\ LET line == LineText[Len(emitted) + 1] IN
         /\ emitted' = Append(emitted, [ch |-> "out", line |-> line])
         /\ stdoutPipe' = Append(stdoutPipe, line)
    /\ blocked' = "no"
    /\ UNCHANGED <<progVars, envVars, fsVars, child, exitStatus, stderrPipe,
                   outClosed, stdinPipe, stdinSeen, loaded, handleVars, prev>>

\* the child writes its next line to its standard error: at once, or when the
\* write it waited in finds room in the pipe
ChildWriteErr ==
    /\ child = "running"
    /\ blocked \in {"no", "err"}
    /\ stderrOpen
    /\ Len(emitted) < MaxLines
    /\ Len(stderrPipe) < PipeCap
    /\ LET line == LineText[Len(emitted) + 1] IN
         /\ emitted' = Append(emitted, [ch |-> "err", line |-> line])
         /\ stderrPipe' = Append(stderrPipe, line)
    /\ blocked' = "no"
    /\ UNCHANGED <<progVars, envVars, fsVars, child, exitStatus, stdoutPipe,
                   outClosed, stdinPipe, stdinSeen, loaded, handleVars, prev>>

\* the child starts to write its next line to a pipe that is full, and whose
\* other end is open: the write waits until the page takes a line out
ChildBlock(ch) ==
    /\ child = "running"
    /\ blocked = "no"
    /\ Len(emitted) < MaxLines
    /\ \/ ch = "out" /\ ~outClosed /\ stdoutOpen /\ Len(stdoutPipe) = PipeCap
       \/ ch = "err" /\ stderrOpen /\ Len(stderrPipe) = PipeCap
    /\ blocked' = ch
    /\ UNCHANGED <<progVars, envVars, fsVars, child, exitStatus, emitted,
                   stdoutPipe, stderrPipe, outClosed, stdinPipe, stdinSeen,
                   loaded, handleVars, prev>>

\* the child closes its standard output and keeps running
ChildCloseOut ==
    /\ child = "running"
    /\ blocked = "no"
    /\ ~outClosed
    /\ outClosed' = TRUE
    /\ UNCHANGED <<progVars, envVars, fsVars, child, exitStatus, emitted,
                   stdoutPipe, stderrPipe, stdinPipe, stdinSeen, loaded,
                   blocked, handleVars, prev>>

\* the child exits with a status: all its channels close.  A child waiting in
\* a write does not get here, unless the other end of that pipe was closed
\* (the write then fails)
ChildExit(status) ==
    /\ child = "running"
    /\ \/ blocked = "no"
       \/ blocked = "out" /\ ~stdoutOpen
       \/ blocked = "err" /\ ~stderrOpen
    /\ child' = "exited"
    /\ exitStatus' = status
    /\ outClosed' = TRUE
    /\ blocked' = "no"
    /\ UNCHANGED <<progVars, envVars, fsVars, emitted, stdoutPipe, stderrPipe,
                   stdinPipe, stdinSeen, loaded, handleVars, prev>>

\* ------------------------------------------- a second session
\* Streamlit runs main() in one script thread per browser session, all in one
\* process and one working directory; exec_minipar_with_input takes no lock.
\* The second session's run, as far as it touches the file system:
\* its button is pressed once, with source code, while this session's run is
\* under way
OtherStart(code) ==
    /\ other.pc = "idle"
    /\ pc # "idle" /\ ~Ended
    /\ other' = [pc |-> "makedirs", code |-> code, path |-> <<>>]
    /\ UNCHANGED <<progVars, cwd, fsMode, exe, fsVars, childVars, handleVars, prev>>

\* its os.makedirs(dir_path, exist_ok=True)
OtherMakedirs ==
    /\ other.pc = "makedirs"
    /\ LET target == Resolve(cwd, dir_path) IN
         IF target \in dirs
         THEN other' = [other EXCEPT !.pc = "open"] /\ UNCHANGED dirs
         ELSE IF fsMode = "ok"
         THEN /\ other' = [other EXCEPT !.pc = "open"]
              /\ dirs' = dirs \cup Ancestors(target)
         ELSE other' = [other EXCEPT !.pc = "failed"] /\ UNCHANGED dirs
    /\ UNCHANGED <<progVars, cwd, fsMode, exe, files, stagedAt, made, childVars,
                   handleVars, prev>>

\* its open(code_file, "w")
OtherOpen ==
    /\ other.pc = "open"
    /\ LET path == Resolve(cwd, code_file) IN
         IF fsMode = "readonly" \/ Dirname(path) \notin dirs
         THEN other' = [other EXCEPT !.pc = "failed"] /\ UNCHANGED files
         ELSE /\ other' = [other EXCEPT !.pc = "write", !.path = path]
              /\ files' = [files EXCEPT ![path] = ""]
    /\ UNCHANGED <<progVars, cwd, fsMode, exe, dirs, stagedAt, made, childVars,
                   handleVars, prev>>

\* its f.write(code) and the close at the end of the with block
OtherWrite ==
    /\ other.pc = "write"
    /\ IF fsMode = "full" /\ other.code # ""
       THEN other' = [other EXCEPT !.pc = "failed"] /\ UNCHANGED files
       ELSE /\ other' = [other EXCEPT !.pc = "staged"]
            /\ files' = [files EXCEPT ![other.path] = @ \o other.code]
    /\ UNCHANGED <<progVars, cwd, fsMode, exe, dirs, stagedAt, made, childVars,
                   handleVars, prev>>

\* ------------------------------------------------------------- Next
Script ==
    \/ Makedirs
    \/ OpenFile
    \/ WriteFile
    \/ Popen
    \/ StdinWrite
    \/ StdinFlush
    \/ ReadLine
    \/ ReadEOF
    \/ StWrite

Child ==
    \/ ChildLoad
    \/ ChildReadStdin
    \/ ChildWriteOut
    \/ ChildWriteErr
    \/ \E ch \in {"out", "err"} : ChildBlock(ch)
    \/ ChildCloseOut
    \/ \E status \in ExitStatuses : ChildExit(status)

User ==
    \/ \E code \in Sources, input \in Inputs : StartRun(code, input)
    \/ Abandon

Runtime ==
    \/ FinalizeProcess
    \/ FinalizeStdout

Next == Script \/ Child \/ User \/ Runtime

Spec == Init /\ [][Next]_vars

OtherSession ==
    \/ \E code \in Sources : OtherStart(code)
    \/ OtherMakedirs
    \/ OtherOpen
    \/ OtherWrite

\* two sessions at once
ConcNext == Next \/ OtherSession

ConcSpec == Init /\ [][ConcNext]_vars

\* the runs in which a read of the child's standard output may fail
FaultNext == Next \/ ReadFault

FaultSpec == Init /\ [][FaultNext]_vars

\* The script thread runs whenever it can, and the interpreter finalises the
\* objects the script dropped.  Nothing makes the user press the button again,
\* and nothing makes the child write, close a channel or exit.
FairSpec == Spec /\ WF_vars(Script) /\ WF_vars(Runtime)

TypeOK ==
    /\ pc \in {"idle", "makedirs", "open", "write", "popen", "stdin_write",
               "stdin_flush", "next", "st_write", "done", "failed", "abandoned"}
    /\ run \in 0..MaxRuns
    /\ child \in {"none", "running", "exited", "reaped"}
    /\ Len(emitted) <= MaxLines
    /\ Len(stdoutPipe) <= PipeCap /\ Len(stderrPipe) <= PipeCap
    /\ blocked \in {"no", "out", "err"}
    /\ made \subseteq dirs

\* ------------------------------------------------ derived notions
\* format_process_output applied to a whole sequence of lines
RECURSIVE FormatAll(_)
FormatAll(lines) ==
    IF lines = <<>> THEN <<>>
    ELSE <<Formatted(Head(lines))>> \o FormatAll(Tail(lines))

\* the lines the child has written to its standard output so far
OutEmitted == LinesOf(emitted, "out")

\* every line the child has written so far, on either channel
AllEmitted == [i \in 1..Len(emitted) |-> emitted[i].line]

IsPrefix(a, b) == Len(a) <= Len(b) /\ a = SubSeq(b, 1, Len(a))

\* the script is in main's for loop
Streaming == pc \in {"next", "st_write"}

\* exec_minipar_with_input has written and flushed the input and has returned
AfterFlush == pc \in {"next", "st_write", "done", "abandoned"}

\* the number of lines the generator has taken out of the stream
Taken == Len(OutEmitted) - Len(stdoutPipe)

\* the element the generator has yielded and main has not written yet
InHand == IF pc = "st_write" THEN <<held>> ELSE <<>>

\* everything the child can have seen, or can still see, on its standard input
StdinTotal == stdinSeen \o stdinPipe

\* the path the staged file is kept at
WellKnown == Resolve(cwd, code_file)

\* the paths at which a staged file exists
StagedFiles == {p \in Paths : files[p] # NoFile}

\* this run has finished staging
Staged ==
    \/ pc \in {"popen", "stdin_write", "stdin_flush", "next", "st_write", "done",
               "abandoned"}
    \/ pc = "failed" /\ error \notin StagingErrors

\* the exceptions raised before the output sequence exists
SetupErrors == StagingErrors \cup {"OSError:Popen", "BrokenPipeError:flush"}

\* the file system refuses what staging this run's source needs
CannotStage ==
    \/ fsMode # "ok" /\ Resolve(cwd, dir_path) \notin dirs
    \/ fsMode = "readonly"
    \/ fsMode = "full" /\ code_input # ""

\* ------------------------------------------------------------ claims

\* C1 Order preservation: the elements written to the page are, at every
\* moment, the formatted first lines of the child's standard output, in the
\* order the child wrote them; while the loop runs no line is lost between the
\* child and the page; when the loop completes every line has been delivered.
C1_OrderPreserved ==
    /\ IsPrefix(delivered, FormatAll(OutEmitted))
    /\ Streaming =>
         delivered \o InHand \o FormatAll(stdoutPipe) = FormatAll(OutEmitted)
    /\ pc = "done" => delivered = FormatAll(OutEmitted)

C1_Witness ==
    /\ pc = "done"
    /\ delivered = <<"\na\n", "\nb\n">>

C3_SingleInputDelivery ==
    user_input # "" =>
        /\ stdinWrites <= 1
        /\ StdinTotal \in {"", user_input \o "\n"}
        /\ (Streaming \/ pc \in {"done", "abandoned"}) =>
              /\ stdinWrites = 1
              /\ stdinBuf = ""
              /\ StdinTotal = user_input \o "\n"

C3_Witness ==
    /\ user_input = "4"
    /\ stdinSeen = "4\n"
    /\ pc = "done"

\* C4 as claimed: with an empty input value nothing is written to the child's
\* standard input.
C4_NoInputNoWrite ==
    user_input = "" => (stdinWrites = 0 /\ stdinBuf = "" /\ StdinTotal = "")

\* C4 as the code has it: with an empty input value the run makes the same
\* single write, whose payload is empty: the child gets exactly one line
\* terminator.
C4_EmptyInputWritesTerminator ==
    (user_input = "" /\ run > 0) =>
        /\ stdinWrites <= 1
        /\ StdinTotal \in {"", "\n"}
        /\ (Streaming \/ pc \in {"done", "abandoned"}) =>
              /\ stdinWrites = 1
              /\ stdinBuf = ""
              /\ StdinTotal = "\n"

C4_Witness ==
    /\ run > 0
    /\ user_input = ""
    /\ stdinSeen = "\n"

\* C5 as claimed: a staged file exists at the well-known path at any time, and
\* staging S2 after S1 leaves exactly S2 there, at the same path.
C5_IdempotentStagingAsClaimed ==
    /\ StagedFiles = {WellKnown}
    /\ Staged => (stagedAt = WellKnown /\ files[WellKnown] = code_input)
    /\ (Staged /\ prev.staged) => stagedAt = prev.path

\* C5 as the code has it: a run that has staged S2, after a run that staged S1
\* or after none, leaves exactly S2 in the staged file, at the same path as the
\* run before; at any time at most one staged file exists, at the well-known
\* path, and from the first staging on exactly one.
C5_IdempotentStaging ==
    /\ StagedFiles \subseteq {WellKnown}
    /\ (prev.staged \/ stagedAt # <<>>) => StagedFiles = {WellKnown}
    /\ Staged => (stagedAt = WellKnown /\ files[WellKnown] = code_input)
    /\ (Staged /\ prev.staged) => stagedAt = prev.path

C5_Witness ==
    /\ prev.staged
    /\ prev.src = "p1"
    /\ Staged
    /\ code_input = "p2"
    /\ files[prev.path] = "p2"

\* C6 Spawn failure: when the interpreter cannot be started the run ends with
\* the exception of Popen, which is none of the other outcomes; nothing was
\* yielded or written to the page, nothing was written to an input channel, and
\* there is no child.
C6_SpawnFailure ==
    /\ error = "OSError:Popen" =>
         /\ pc = "failed"
         /\ delivered = <<>> /\ held = ""
         /\ stdinWrites = 0 /\ stdinBuf = "" /\ StdinTotal = ""
         /\ spawns = 0 /\ child = "none"
    /\ ~exe =>
         /\ pc \in {"idle", "makedirs", "open", "write", "popen", "failed"}
         /\ (pc = "failed" /\ error \notin StagingErrors) => error = "OSError:Popen"

C6_Witness ==
    /\ pc = "failed"
    /\ error = "OSError:Popen"
    /\ files[WellKnown] = code_input

\* C7 Staging failure: when the directory cannot be created or the file cannot
\* be written the run ends with the exception of the failing step, no child is
\* created in that run, and the failed step is not tried again: the script does
\* nothing more until the next run.
C7_StagingFailure ==
    /\ [](error \in StagingErrors =>
            /\ pc = "failed"
            /\ spawns = 0 /\ child = "none"
            /\ delivered = <<>>)
    /\ [](CannotStage =>
            /\ pc \in {"idle", "makedirs", "open", "write", "failed"}
            /\ spawns = 0
            /\ pc = "failed" => error \in StagingErrors)
    /\ [][(error \in StagingErrors /\ run' = run) => UNCHANGED <<pc, dirs, files>>]_vars

C7_Witness ==
    /\ pc = "failed"
    /\ error = "OSError:write"
    /\ files[WellKnown] = ""

\* C8 Merged diagnostics: when the loop completes, the page has received every
\* line the child wrote, to its standard output or to its standard error, in
\* the order the child wrote them.
C8_MergedDiagnostics ==
    pc = "done" => delivered = FormatAll(AllEmitted)

\* C9 Resource release: a run creates exactly one child, and once the loop has
\* completed or was abandoned, the three channels get closed and the child gets
\* waited for.
C9_ResourceRelease ==
    /\ [](spawns <= 1)
    /\ [](pc \in {"next", "st_write", "done", "abandoned"} => spawns = 1)
    /\ ((pc \in {"done", "abandoned"}) ~>
           (~stdinOpen /\ ~stderrOpen /\ ~stdoutOpen /\ child = "reaped"))


\* C10 Exit status is not surfaced: whatever status the child exits with, zero
\* or not, a run that got as far as the loop and was not abandoned ends with
\* the loop completed, without an exception, and with the page showing the
\* formatted lines of the child's standard output: what the caller sees is
\* decided by the lines alone, so two runs with the same lines and different
\* statuses show the same.
C10_ExitStatusNotSurfaced ==
    \A status \in ExitStatuses :
        ( /\ child \in {"exited", "reaped"} /\ exitStatus = status
          /\ Ended /\ pc # "abandoned" /\ error \notin SetupErrors )
        => ( /\ pc = "done"
             /\ error = "none"
             /\ delivered = FormatAll(OutEmitted) )

C10_Witness ==
    /\ pc = "done"
    /\ child = "exited"
    /\ exitStatus = 1
    /\ delivered = <<"\na\n">>


\* C11 Directory auto-creation: on a file system that accepts writes, staging
\* never fails, whether the staging directory was missing (os.makedirs creates
\* it, and every missing parent) or was already there (nothing is created);
\* once a run has staged, the directory exists with all its parents and the
\* staged file inside it holds the submitted source.
C11_DirectoryAutoCreation ==
    /\ fsMode = "ok" => error \notin StagingErrors
    /\ made # {} => Resolve(cwd, dir_path) \in made
    /\ Staged =>
         /\ Ancestors(Resolve(cwd, dir_path)) \subseteq dirs
         /\ made \subseteq dirs
         /\ stagedAt = Join(Resolve(cwd, dir_path), <<"prog.minipar">>)
         /\ files[stagedAt] = code_input

C11_Witness ==
    /\ Staged
    /\ Resolve(cwd, dir_path) \in made
    /\ Dirname(Resolve(cwd, dir_path)) \in made
    /\ files[stagedAt] = code_input
    /\ code_input # ""


\* C12 Step ordering within a run: the child is created in one step only, the
\* one that follows the write and close of the staged file, and at that step
\* the file holds the whole source; the one write to the child's standard
\* input comes after the spawn and before anything was read, and the flush
\* after the write; the first read of the standard output comes after the
\* flush; from then on the script creates no child, writes no input and
\* touches no file: it only reads the output and hands it to the page.
C12_StepOrdering ==
    [][ run' = run =>
          /\ spawns' # spawns =>
                /\ pc = "popen" /\ pc' = "stdin_write"
                /\ spawns = 0 /\ spawns' = 1
                /\ files[stagedAt] = code_input
                /\ files' = files
                /\ stdinWrites = 0
          /\ stdinWrites' # stdinWrites =>
                /\ pc = "stdin_write" /\ pc' = "stdin_flush"
                /\ spawns = 1
                /\ stdinWrites = 0 /\ stdinWrites' = 1
                /\ delivered = <<>> /\ held = ""
          /\ stdinPipe' # stdinPipe /\ stdinSeen' = stdinSeen =>
                /\ pc = "stdin_flush" /\ pc' = "next"
                /\ stdinWrites = 1
                /\ delivered = <<>> /\ held = ""
          /\ held' # held \/ delivered' # delivered \/ (pc # "done" /\ pc' = "done") =>
                /\ Streaming
                /\ spawns = 1 /\ stdinWrites = 1 /\ stdinBuf = ""
          /\ Streaming =>
                /\ pc' \in {"next", "st_write", "done", "abandoned"}
                /\ spawns' = spawns
                /\ stdinWrites' = stdinWrites
                /\ stdinBuf' = stdinBuf
                /\ stdinPipe' # stdinPipe => stdinSeen' # stdinSeen
                /\ files' = files /\ dirs' = dirs
    ]_vars

C12_Witness ==
    /\ pc = "done"
    /\ spawns = 1
    /\ stdinWrites = 1
    /\ StdinTotal = "4\n"
    /\ code_input # ""
    /\ files[stagedAt] = code_input
    /\ Len(delivered) = 1


\* the page waits in a read of the child's standard output: no line is in the
\* pipe and the child has not closed it
ReaderWaits == pc = "next" /\ stdoutPipe = <<>> /\ ~outClosed

\* C13 No deadlock caused by the system: the child never waits in a write to a
\* full pipe while the page waits for the child's next line of output.
C13_NoDeadlock ==
    ~(child = "running" /\ blocked # "no" /\ ReaderWaits)


\* C14 Run isolation under concurrency: two runs that are under way at the same
\* time have staged to different paths, and the program text a run's child
\* reads from its argument is the source submitted to that run.
C14_RunIsolation ==
    /\ (stagedAt # <<>> /\ other.path # <<>> /\ ~Ended) => other.path # stagedAt
    /\ loaded # NoFile => loaded = code_input


\* C15 Mid-stream read fault: when a read of the child's standard output fails,
\* the run ends with that exception and not as a completed loop (a loop
\* completes only at the true end of the stream); the elements delivered
\* before the fault are the formatted first lines of the child's output and
\* stay delivered; nothing is delivered after the fault.
C15_MidStreamFault ==
    /\ [](error = "OSError:read" =>
            /\ pc = "failed"
            /\ IsPrefix(delivered, FormatAll(OutEmitted)))
    /\ [](pc = "done" => error = "none" /\ outClosed /\ stdoutPipe = <<>>)
    /\ [][(error' = "OSError:read" /\ run' = run) =>
            /\ delivered' = delivered
            /\ error = "OSError:read" \/ pc = "next"]_vars

C15_Witness ==
    /\ error = "OSError:read"
    /\ pc = "failed"
    /\ delivered = <<"\na\n">>
    /\ OutEmitted = <<"a\n", "b\n">>


\* C16 as claimed: in every state after the write and flush of the input value
\* the one write is all that was done to the child's input channel: nothing
\* more was written, the child has or can get the input line and nothing
\* else, and the channel has not been closed.
C16_InputFrameAsClaimed ==
    AfterFlush =>
        /\ stdinWrites = 1
        /\ stdinBuf = ""
        /\ StdinTotal = user_input \o "\n"
        /\ stdinOpen

\* C16 Input channel frame after the one-shot write: in every state after the
\* write and flush of the input value nothing more was written to the child's
\* input channel, the child has or can get the input line and nothing else,
\* and the channel is open for as long as the child runs: it is closed only by
\* the finalisation that follows the child's exit, so no child observes
\* end-of-input.
C16_InputFrame ==
    AfterFlush =>
        /\ stdinWrites = 1
        /\ stdinBuf = ""
        /\ StdinTotal = user_input \o "\n"
        /\ child = "running" => stdinOpen
        /\ ~stdinOpen => child = "reaped"

C16_Witness ==
    /\ pc = "done"
    /\ child = "running"
    /\ stdinOpen
    /\ user_input = "4"
    /\ stdinSeen = "4\n"
    /\ stdinPipe = ""


\* C17 Path resolution: the command has one argument after the executable, the
\* staged file's path relative to the directory the interpreter is installed
\* in, which is the child's working directory; from every working directory
\* of the page it names the file staging writes, and the program text the
\* child reads from it is the source this run staged.
C17_PathResolution ==
    /\ Len(cmd) = 2
    /\ \A c \in Cwds :
         /\ Resolve(c, child_cwd) = Dirname(Resolve(c, MINIPAR_PATH))
         /\ Resolve(Resolve(c, child_cwd), cmd[1]) = Resolve(c, MINIPAR_PATH)
         /\ Resolve(Resolve(c, child_cwd), cmd[2]) = Resolve(c, code_file)
    /\ spawns = 1 => Resolve(Resolve(cwd, child_cwd), cmd[2]) = stagedAt
    /\ loaded # NoFile => loaded = code_input

C17_Witness ==
    /\ child = "running"
    /\ cwd = <<"srv">>
    /\ stagedAt = <<"minipar", "tmp", "prog.minipar">>
    /\ loaded = code_input
    /\ code_input = "p2"
    /\ prev.staged /\ prev.src = "p1"


\* C18 format_process_output is a one-to-one, order-preserving, lazy mapping:
\* while the loop runs and when it has completed, the i-th element handed to
\* the page is a newline character followed by the i-th line of the stream;
\* the generator has taken from the stream the lines of the elements consumed
\* and at most one more, the one of the element in hand; a completed loop has
\* yielded as many elements as the stream had lines.
C18_LazyMapping ==
    (Streaming \/ pc = "done") =>
        /\ Taken = Len(delivered) + Len(InHand)
        /\ \A i \in 1..Len(delivered) : delivered[i] = "\n" \o OutEmitted[i]
        /\ pc = "st_write" => held = "\n" \o OutEmitted[Taken]
        /\ pc = "done" => Len(delivered) = Len(OutEmitted)

C18_Witness ==
    /\ pc = "st_write"
    /\ delivered = <<"\na\n">>
    /\ held = "\nb\n"
    /\ stdoutPipe = <<"c\n">>

====
